---- MODULE Spec2Model ----
(***************************************************************************)
(* Dispersive-material susceptibilities of Meep (src/src/susceptibility.cpp)*)
(* as a state machine: the susceptibility objects with their coupling       *)
(* arrays (sigma) on a heap, clone(), the allocation queries needs_P and    *)
(* needs_W_notowned, num_internal_data and the Lorentzian update_P kernel.  *)
(*                                                                         *)
(* Numbers are exact integers.  The field values are drawn as multiples of  *)
(* four, so that the factor 0.25 of OFFDIAG is exact, and the oscillator    *)
(* coefficients are drawn so that 1/(1+g) is an integer.                    *)
(***************************************************************************)
EXTENDS Integers, Sequences, FiniteSets, TLC

VARIABLES objs, heap, clonedFrom, writes, osc, W, P, P_internal_data,
          P_prev, log, calls, Pold, bsOld, ret

vars == <<objs, heap, clonedFrom, writes, osc, W, P, P_internal_data,
          P_prev, log, calls, Pold, bsOld, ret>>

(***************************************************************************)
(* Bounds of the model.                                                    *)
(***************************************************************************)
\* cells of the 2d grid volume along X and along Y
GridNx == 2
GridNy == 1
\* update_P calls in one behaviour
MaxCalls == 2
\* writes to coupling arrays in one behaviour
MaxWrites == 2

(***************************************************************************)
(* Components and directions (meep.hpp).  The Cartesian components, in the *)
(* order FOR_COMPONENTS visits them; D stands for the components that are  *)
(* neither electric nor magnetic.                                          *)
(***************************************************************************)
NULL == 0

Components == <<"Ex", "Ey", "Ez", "Hx", "Hy", "Hz", "Dx", "Dy", "Dz">>

Directions == <<"X", "Y", "Z">>

CompSet == {Components[k] : k \in 1..Len(Components)}

DirSet == {Directions[k] : k \in 1..Len(Directions)}

Entries == CompSet \X DirSet

Copies == {0, 1}

CompIdx(c) == CHOOSE k \in 1..Len(Components) : Components[k] = c

DirIdx(d) == CHOOSE k \in 1..Len(Directions) : Directions[k] = d

is_electric(c) == c \in {"Ex", "Ey", "Ez"}

is_magnetic(c) == c \in {"Hx", "Hy", "Hz"}

component_direction(c) == Directions[((CompIdx(c) - 1) % 3) + 1]

direction_component(c, d) == Components[3 * ((CompIdx(c) - 1) \div 3) + DirIdx(d)]

\* the dimensionality of the grid volume; every Cartesian one cycles X, Y, Z
gv_dim == "D2"

cycle_direction(dim, d, shift) ==
  IF dim = "Dcyl" THEN d ELSE Directions[((DirIdx(d) - 1 + shift) % 3) + 1]

\* the entries in the order FOR_COMPONENTS(c) FOR_DIRECTIONS(d) visits them
EntrySeq == [k \in 1..(Len(Components) * Len(Directions)) |->
               <<Components[((k - 1) \div Len(Directions)) + 1],
                 Directions[((k - 1) % Len(Directions)) + 1]>>]

\* the (component, copy) pairs in the order FOR_COMPONENTS(c) DOCMP2 visits them
PairSeq == [k \in 1..(2 * Len(Components)) |->
              <<Components[((k - 1) \div 2) + 1], (k - 1) % 2>>]

(***************************************************************************)
(* The grid volume gv (meep.hpp): a 2d volume of GridNx by GridNy cells.   *)
(***************************************************************************)
gv_ntot == (GridNx + 1) * (GridNy + 1)

gv_stride(d) == CASE d = "X" -> GridNy + 1
                  [] d = "Y" -> 1
                  [] OTHER -> 0

\* whether component c sits half a cell off the grid point along d (Yee lattice)
YeeShift(c, d) == IF is_magnetic(c) THEN component_direction(c) # d
                                    ELSE component_direction(c) = d

OwnedRange(c, d, n) == IF YeeShift(c, d) THEN 0..(n - 1) ELSE 1..n

\* LOOP_OVER_VOL_OWNED(gv, c, i): the indices i of the points gv owns for c
Owned(c) == {ix * (GridNy + 1) + iy : ix \in OwnedRange(c, "X", GridNx),
                                      iy \in OwnedRange(c, "Y", GridNy)}

Index == 0..(gv_ntot - 1)

(***************************************************************************)
(* Arrays.  An array is a function on 0..n-1; a set of arrays indexed by    *)
(* [component][copy] is a function whose domain holds the non-null ones.   *)
(***************************************************************************)
HasArr(A, c, cmp) == <<c, cmp>> \in DOMAIN A

\* a read.  A read through a null pointer or outside the array is undefined in
\* C++; the model gives it the value 1, and MemorySafe shows no call does it.
Load(arr, i) == IF i \in DOMAIN arr THEN arr[i] ELSE 1

Deref(h, a) == IF a \in DOMAIN h THEN h[a] ELSE <<>>

Max(S) == CHOOSE x \in S : \A y \in S : y <= x

\* new realnum[n]: an address no live array has
NewAddr(h) == IF DOMAIN h = {} THEN 1 ELSE Max(DOMAIN h) + 1

(***************************************************************************)
(* susceptibility::clone, lines 35-49.                                     *)
(***************************************************************************)
\* a botched copy of one entry: the pointer is copied, the array is shared
CloneEntryShallow(st, this, e) ==
  [st EXCEPT !.sus.sigma[e] = this.sigma[e],
             !.sus.trivial_sigma[e] = this.trivial_sigma[e]]

\* lines 41-46: one entry (c, d) of the loop
CloneEntry(st, this, e) ==
  IF this.sigma[e] # NULL
    THEN LET a == NewAddr(st.heap)
         IN [sus |-> [st.sus EXCEPT !.sigma[e] = a,
                                    !.trivial_sigma[e] = this.trivial_sigma[e]],
             heap |-> [x \in DOMAIN st.heap \cup {a} |->
                         IF x = a
                           THEN [i \in 0..(this.ntot - 1) |-> st.heap[this.sigma[e]][i]]
                           ELSE st.heap[x]]]
    ELSE [st EXCEPT !.sus.sigma[e] = NULL,
                    !.sus.trivial_sigma[e] = this.trivial_sigma[e]]

RECURSIVE CloneLoop(_, _, _)
\* line 40: FOR_COMPONENTS(c) FOR_DIRECTIONS(d), from entry k on
CloneLoop(st, this, k) ==
  IF k > Len(EntrySeq) THEN st
  ELSE CloneLoop(CloneEntry(st, this, EntrySeq[k]), this, k + 1)

\* lines 36-39, then the loop: the new object and the heap after clone()
clone(this, h) ==
  CloneLoop([sus |-> [this EXCEPT !.next = NULL, !.ntot = this.ntot, !.id = this.id],
             heap |-> h], this, 1)

(***************************************************************************)
(* susceptibility::needs_P, lines 61-67.                                   *)
(***************************************************************************)
\* the test of line 63 with the magnetic components forgotten
NotPolarizableOnlyE(c) == ~is_electric(c)

\* line 63
NotPolarizable(c) == ~is_electric(c) /\ ~is_magnetic(c)

\* the test of line 65 looking at the field of c itself, not of the coupled one
CoupledOwnField(this, c, d, Wf) == ~this.trivial_sigma[<<c, d>>] /\ HasArr(Wf, c, 0)

\* line 65: !trivial_sigma[c][d] && W[direction_component(c, d)][0]
Coupled(this, c, d, Wf) ==
  ~this.trivial_sigma[<<c, d>>] /\ HasArr(Wf, direction_component(c, d), 0)

needs_P(this, c, Wf) ==
  IF NotPolarizable(c) THEN FALSE
  ELSE \E d \in DirSet : Coupled(this, c, d, Wf)

(***************************************************************************)
(* susceptibility::needs_W_notowned, lines 73-81.                          *)
(***************************************************************************)
\* the test of line 77 with the reverse coupling entry forgotten
CouplesBackAlways(this, cP, c) == TRUE

\* line 77, second conjunct
CouplesBack(this, cP, c) == ~this.trivial_sigma[<<cP, component_direction(c)>>]

needs_W_notowned(this, c, Wf) ==
  \E d \in DirSet :
     /\ d # component_direction(c)
     /\ LET cP == direction_component(c, d)
        IN needs_P(this, cP, Wf) /\ CouplesBack(this, cP, c)

(***************************************************************************)
(* lorentzian_susceptibility::num_internal_data, lines 85-91.              *)
(***************************************************************************)
\* a count that forgets the second copy of each component
PairCountFirstCopy(Pf, c, cmp) == IF HasArr(Pf, c, cmp) /\ cmp = 0 THEN gv_ntot ELSE 0

\* line 89, one (c, cmp): if (P[c][cmp]) num += gv.ntot()
PairCount(Pf, c, cmp) == IF HasArr(Pf, c, cmp) THEN gv_ntot ELSE 0

\* lines 88-90: num after the first k pairs of FOR_COMPONENTS(c) DOCMP2
num_internal_data(Pf) ==
  LET num[k \in 0..Len(PairSeq)] ==
        IF k = 0 THEN 0
        ELSE num[k - 1] + PairCount(Pf, PairSeq[k][1], PairSeq[k][2])
  IN num[Len(PairSeq)]

(***************************************************************************)
(* lorentzian_susceptibility::update_P, lines 99-171.                      *)
(***************************************************************************)
\* lines 104-107.  o.omega2pi_dt is omega2pi * dt and o.g2pi_dt_half is
\* g2pi * dt / 2; both are drawn as integers with 1 + g2pi_dt_half = 1 or -1.
omega0dtsqr(o) == o.omega2pi_dt * o.omega2pi_dt

gamma1inv(o) == 1 \div (1 + o.g2pi_dt_half)

gamma1(o) == 1 - o.g2pi_dt_half

omega0dtsqr_denom(o) == IF o.no_omega_0_denominator THEN 0 ELSE omega0dtsqr(o)

\* the factor 0.25 of OFFDIAG, exact on the multiples of four
Quarter(x) == x \div 4

\* lines 96-97: OFFDIAG(u, g, sx, s) at the point i
OFFDIAG(u, g, sx, s, i) ==
  Quarter((Load(g, i) + Load(g, i - sx)) * Load(u, i)
          + (Load(g, i + s) + Load(g, (i + s) - sx)) * Load(u, i + s))

\* the indices OFFDIAG reads at the point i
OffdiagIdx(sx, s, i) == {i, i - sx, i + s, (i + s) - sx}

\* the recurrence with the denominator choice applied to the drive as well
NewPDenomDrive(o, pcur, pprev, drive) ==
  gamma1inv(o) * (pcur * (2 - omega0dtsqr_denom(o)) - gamma1(o) * pprev
                  + omega0dtsqr_denom(o) * drive)

\* lines 141-145, 152-155, 162-164: the new p[i]
NewP(o, pcur, pprev, drive) ==
  gamma1inv(o) * (pcur * (2 - omega0dtsqr_denom(o)) - gamma1(o) * pprev
                  + omega0dtsqr(o) * drive)

\* lines 146, 156, 165: pp[i] = pcur
Backup(pcur, pnew) == pcur

\* the test of line 114 with the coupling array forgotten
PairActiveFieldOnly(w, s) == w # "NULL"

\* line 114: if (w && s)
PairActive(w, s) == w # "NULL" /\ s # NULL

\* the cursor advanced inside the if-block of line 114
AdvanceCursorIfActive(cur, active) == IF active THEN cur + gv_ntot ELSE cur

\* line 169: P_prev += gv.ntot()
AdvanceCursor(cur, active) == cur + gv_ntot

\* a swap that leaves the field pointers w1, w2 where they were
SwapCandidatesNoField(k1, k2) ==
  <<[k2 EXCEPT !.w = k1.w], [k1 EXCEPT !.w = k2.w]>>

\* lines 132-136: the five SWAPs
SwapCandidates(k1, k2) == <<k2, k1>>

Sign(c) == IF is_magnetic(c) THEN -1 ELSE 1

\* the pointer W[c][cmp]: the component whose array it is, or "NULL"
FieldPtr(Wf, c, cmp) == IF HasArr(Wf, c, cmp) THEN c ELSE "NULL"

FieldArr(Wf, w, cmp) == IF HasArr(Wf, w, cmp) THEN Wf[<<w, cmp>>] ELSE <<>>

\* lines 120-124 (shift 1) and 125-129 (shift 2): d, c, is, w, s of a candidate
Candidate(this, Wf, c, cmp, shift) ==
  LET d1 == cycle_direction(gv_dim, component_direction(c), shift)
      c1 == direction_component(c, d1)
      w1 == FieldPtr(Wf, c1, cmp)
  IN [d |-> d1, c |-> c1, is |-> gv_stride(d1) * Sign(c), w |-> w1,
      s |-> IF w1 # "NULL" THEN this.sigma[<<c, d1>>] ELSE NULL]

\* lines 138-167: the branch taken and the loops over the owned points, with
\* the candidates kk as lines 131-137 left them
KernelLoops(st, h, o, Wf, c, cmp, w, s, kk, branch) ==
  LET is == gv_stride(component_direction(c)) * Sign(c)
      p == st.P[<<c, cmp>>]
      wa == FieldArr(Wf, w, cmp)
      sa == Deref(h, s)
      Off(k, i) == OFFDIAG(Deref(h, k.s), FieldArr(Wf, k.w, cmp), k.is, is, i)
      Drive(i) == CASE branch = "3x3" ->
                         Load(sa, i) * Load(wa, i) + Off(kk[1], i) + Off(kk[2], i)
                    [] branch = "2x2" -> Load(sa, i) * Load(wa, i) + Off(kk[1], i)
                    [] OTHER -> Load(sa, i) * Load(wa, i)
      used == IF branch = "3x3" THEN {kk[1], kk[2]}
              ELSE IF branch = "2x2" THEN {kk[1]} ELSE {}
  IN CHOOSE r \in
       {[P |-> [st.P EXCEPT ![<<c, cmp>>] = pnew],
         bs |-> [j \in DOMAIN st.bs |->
                   IF (j - st.cur) \in Owned(c)
                     THEN Backup(p[j - st.cur], pnew[j - st.cur])
                     ELSE st.bs[j]],
         cur |-> st.cur,
         log |-> Append(st.log,
                   [c |-> c, cmp |-> cmp, off |-> st.cur, active |-> TRUE,
                    branch |-> branch, k1 |-> kk[1], k2 |-> kk[2],
                    bsIdx |-> {st.cur + i : i \in Owned(c)},
                    offW |-> {k.w : k \in used},
                    idx |-> Owned(c) \cup UNION {OffdiagIdx(k.is, is, i) :
                                                  k \in used, i \in Owned(c)},
                    nullRead |-> (w = "NULL" \/ s = NULL
                                  \/ \E k \in used : k.w = "NULL" \/ k.s = NULL)])] :
          pnew \in {[i \in DOMAIN p |->
                       IF i \in Owned(c)
                         THEN NewP(o, p[i], Load(st.bs, st.cur + i), Drive(i))
                         ELSE p[i]]}} : TRUE

\* lines 115-137: the candidates, swapped so that the first is the non-null one
Kernel(st, this, h, o, Wf, c, cmp, w, s) ==
  CHOOSE r \in
    {KernelLoops(st, h, o, Wf, c, cmp, w, s, kk,
                 IF kk[1].s # NULL /\ kk[2].s # NULL THEN "3x3"
                 ELSE IF kk[1].s # NULL THEN "2x2" ELSE "iso") :
       kk \in {LET k1 == Candidate(this, Wf, c, cmp, 1)
                   k2 == Candidate(this, Wf, c, cmp, 2)
               IN IF k2.s # NULL /\ k1.s = NULL THEN SwapCandidates(k1, k2)
                  ELSE <<k1, k2>>}} : TRUE

\* a skip that resets the polarization of the pair
SkipZeroing(st, c, cmp) ==
  [st EXCEPT !.P[<<c, cmp>>] = [i \in DOMAIN st.P[<<c, cmp>>] |-> 0],
             !.log = Append(st.log,
     [c |-> c, cmp |-> cmp, off |-> st.cur, active |-> FALSE, branch |-> "skip",
      k1 |-> [d |-> "X", c |-> c, is |-> 0, w |-> "NULL", s |-> NULL],
      k2 |-> [d |-> "X", c |-> c, is |-> 0, w |-> "NULL", s |-> NULL],
      bsIdx |-> {}, offW |-> {}, idx |-> {}, nullRead |-> FALSE])]

\* a pair whose P is allocated and that fails line 114: nothing is touched
Skip(st, c, cmp) ==
  [st EXCEPT !.log = Append(st.log,
     [c |-> c, cmp |-> cmp, off |-> st.cur, active |-> FALSE, branch |-> "skip",
      k1 |-> [d |-> "X", c |-> c, is |-> 0, w |-> "NULL", s |-> NULL],
      k2 |-> [d |-> "X", c |-> c, is |-> 0, w |-> "NULL", s |-> NULL],
      bsIdx |-> {}, offW |-> {}, idx |-> {}, nullRead |-> FALSE])]

\* lines 112-170: the body of the loop for one (c, cmp) with P[c][cmp] non-null
UpdatePair(st, this, h, o, Wf, c, cmp) ==
  LET w == FieldPtr(Wf, c, cmp)
      s == this.sigma[<<c, component_direction(c)>>]
      done == IF PairActive(w, s) THEN Kernel(st, this, h, o, Wf, c, cmp, w, s)
              ELSE Skip(st, c, cmp)
  IN [done EXCEPT !.cur = AdvanceCursor(st.cur, PairActive(w, s))]

RECURSIVE UpdateLoop(_, _, _, _, _, _)
\* line 112: FOR_COMPONENTS(c) DOCMP2 if (P[c][cmp]), from pair k on
UpdateLoop(st, this, h, o, Wf, k) ==
  IF k > Len(PairSeq) THEN st
  ELSE CHOOSE r \in
         {UpdateLoop(nxt, this, h, o, Wf, k + 1) :
            nxt \in {IF HasArr(st.P, PairSeq[k][1], PairSeq[k][2])
                       THEN UpdatePair(st, this, h, o, Wf, PairSeq[k][1], PairSeq[k][2])
                       ELSE st}} : TRUE

\* the whole call; line 111 sets the cursor to the start of P_internal_data
update_P(this, h, o, Pf, Wf, data) ==
  UpdateLoop([P |-> Pf, bs |-> data, cur |-> 0, log |-> <<>>], this, h, o, Wf, 1)

(***************************************************************************)
(* States.  The setup layer (structure and fields, outside this file) makes *)
(* the susceptibility, the field arrays W, the polarization arrays P and   *)
(* the block P_internal_data; the definitions below build what it hands    *)
(* over.                                                                   *)
(***************************************************************************)
EntryAddr(e) == Len(Directions) * (CompIdx(e[1]) - 1) + DirIdx(e[2])

SigmaValue(a, i) == 1 + ((2 * a + 3 * i) % 7)

\* a susceptibility whose non-trivial coupling entries are NT, each with an
\* array of ntot values: sigma[c][d] is non-null exactly where it is not trivial
MakeSus(id, next, ntot, NT) ==
  [id |-> id, next |-> next, ntot |-> ntot,
   sigma |-> [e \in Entries |-> IF e \in NT THEN EntryAddr(e) ELSE NULL],
   trivial_sigma |-> [e \in Entries |-> e \notin NT]]

MakeHeap(ntot, NT) ==
  [a \in {EntryAddr(e) : e \in NT} |-> [i \in 0..(ntot - 1) |-> SigmaValue(a, i)]]

\* field values of one timestep: multiples of four, scaled by k
FieldValue(k, c, cmp, i) == 4 * k * (1 + ((CompIdx(c) + 2 * i + cmp) % 5))

\* the field arrays of the components Wc; a real field has no second copy
MakeFields(Wc, real, k) ==
  [pr \in Wc \X (IF real THEN {0} ELSE Copies) |->
     [i \in Index |-> FieldValue(k, pr[1], pr[2], i)]]

\* the polarization arrays of the components Pc, zero or in mid-run
MakeP(Pc, real, running) ==
  [pr \in Pc \X (IF real THEN {0} ELSE Copies) |->
     [i \in Index |-> IF running THEN 1 + ((CompIdx(pr[1]) + i + pr[2]) % 3) ELSE 0]]

\* the block the chunk allocates: num_internal_data scalars
MakeData(Pf, running) ==
  [j \in 0..(num_internal_data(Pf) - 1) |-> IF running THEN 1 + (j % 2) ELSE 0]

NoRet == [op |-> "none", c |-> "none", val |-> 0]

NoOsc == [omega2pi_dt |-> 1, g2pi_dt_half |-> 0, no_omega_0_denominator |-> FALSE]

\* omega2pi*dt, g2pi*dt/2 and the flag of the susceptibilities of the model
OscChoices ==
  {[omega2pi_dt |-> 1, g2pi_dt_half |-> 0, no_omega_0_denominator |-> FALSE],
   [omega2pi_dt |-> 2, g2pi_dt_half |-> -2, no_omega_0_denominator |-> TRUE]}

FieldScales == {1, 2}

Polarizable == {c \in CompSet : is_electric(c) \/ is_magnetic(c)}

\* the components of the field type of c
Triple(c) == {direction_component(c, d) : d \in DirSet}

\* the subsets of S with at most two elements
UpToTwo(S) == {{}} \cup {{a, b} : a \in S, b \in S}

\* the subsets of S with at most three elements
UpToThree(S) == {{}} \cup {{a, b, c} : a \in S, b \in S, c \in S}

(***************************************************************************)
(* Clone: the susceptibility objects, clone() and writes to coupling       *)
(* arrays.                                                                 *)
(***************************************************************************)
IdChoices == {0, 3}

NextChoices == {NULL, 9}

NtotChoices == {1, 2}

WriteValues == {0, 8}

InitClone ==
  \E c \in Polarizable, id \in IdChoices, nx \in NextChoices, n \in NtotChoices :
  \E NT \in SUBSET ({c} \X DirSet) :
     /\ objs = <<MakeSus(id, nx, n, NT)>>
     /\ heap = MakeHeap(n, NT)
     /\ clonedFrom = <<0>>
     /\ writes = 0
     /\ osc = NoOsc
     /\ W = <<>>
     /\ P = <<>>
     /\ P_internal_data = <<>>
     /\ P_prev = 0
     /\ log = <<>>
     /\ calls = 0
     /\ Pold = <<>>
     /\ bsOld = <<>>
     /\ ret = NoRet

\* sus = objs[k].clone(): at most one clone of the first object is made here
Clone ==
  /\ Len(objs) = 1
  /\ LET r == clone(objs[1], heap)
     IN /\ objs' = Append(objs, r.sus)
        /\ heap' = r.heap
        /\ clonedFrom' = Append(clonedFrom, 1)
  /\ UNCHANGED <<writes, osc, W, P, P_internal_data, P_prev, log, calls, Pold,
                 bsOld, ret>>

\* objs[k].sigma[c][d][i] = v, by the owner of the object
WriteSigma ==
  /\ writes < MaxWrites
  /\ Len(objs) = 2
  /\ \E k \in 1..Len(objs), e \in Entries, v \in WriteValues :
       /\ objs[k].sigma[e] # NULL
       /\ \E i \in 0..(objs[k].ntot - 1) :
            heap' = [heap EXCEPT ![objs[k].sigma[e]][i] = v]
  /\ writes' = writes + 1
  /\ UNCHANGED <<objs, clonedFrom, osc, W, P, P_internal_data, P_prev, log,
                 calls, Pold, bsOld, ret>>

NextClone == Clone \/ WriteSigma

SpecClone == InitClone /\ [][NextClone]_vars

(***************************************************************************)
(* Policy: the two allocation queries on drawn coupling tensors and field  *)
(* sets.                                                                   *)
(***************************************************************************)
InitPolicy ==
  \E NT \in UpToTwo(Entries), Wc \in UpToTwo(CompSet) :
     /\ objs = <<MakeSus(0, NULL, gv_ntot, NT)>>
     /\ heap = MakeHeap(gv_ntot, NT)
     /\ clonedFrom = <<0>>
     /\ writes = 0
     /\ osc = NoOsc
     /\ W = MakeFields(Wc, TRUE, 1)
     /\ P = <<>>
     /\ P_internal_data = <<>>
     /\ P_prev = 0
     /\ log = <<>>
     /\ calls = 0
     /\ Pold = <<>>
     /\ bsOld = <<>>
     /\ ret = NoRet

UnchangedButRet ==
  UNCHANGED <<objs, heap, clonedFrom, writes, osc, W, P, P_internal_data,
              P_prev, log, calls, Pold, bsOld>>

NeedsP ==
  /\ \E c \in CompSet :
       ret' = [op |-> "needs_P", c |-> c, val |-> needs_P(objs[1], c, W)]
  /\ UnchangedButRet

NeedsWNotowned ==
  /\ \E c \in CompSet :
       ret' = [op |-> "needs_W_notowned", c |-> c,
               val |-> needs_W_notowned(objs[1], c, W)]
  /\ UnchangedButRet

NextPolicy == NeedsP \/ NeedsWNotowned

SpecPolicy == InitPolicy /\ [][NextPolicy]_vars

(***************************************************************************)
(* Size: num_internal_data on drawn sets of polarization arrays.           *)
(***************************************************************************)
InitSize ==
  \E Pp \in UpToThree(CompSet \X Copies) :
     /\ objs = <<MakeSus(0, NULL, gv_ntot, {})>>
     /\ heap = <<>>
     /\ clonedFrom = <<0>>
     /\ writes = 0
     /\ osc = NoOsc
     /\ W = <<>>
     /\ P = [pr \in Pp |-> [i \in Index |-> 0]]
     /\ P_internal_data = <<>>
     /\ P_prev = 0
     /\ log = <<>>
     /\ calls = 0
     /\ Pold = <<>>
     /\ bsOld = <<>>
     /\ ret = NoRet

NumInternalData ==
  /\ ret.op = "none"
  /\ ret' = [op |-> "num_internal_data", c |-> "none", val |-> num_internal_data(P)]
  /\ UnchangedButRet

SpecSize == InitSize /\ [][NumInternalData]_vars

(***************************************************************************)
(* Update: update_P, timestep after timestep, on one chunk.                *)
(***************************************************************************)
\* other components whose P the chunk may hold besides the one in focus
OtherChoices(c) == {{}} \cup {{x} : x \in {"Ey", "Dx"} \ {c}}

InitUpdate ==
  \E c \in CompSet, o \in OscChoices, real \in BOOLEAN, running \in BOOLEAN :
  \E NT \in SUBSET ({c} \X DirSet), Wc \in SUBSET Triple(c), O \in OtherChoices(c) :
  \E Pf \in {MakeP({c} \cup O, real, running)} :
  \E data \in {MakeData(Pf, running)} :
     /\ (NT # {}) => (c \in Polarizable)
     /\ objs = <<MakeSus(0, NULL, gv_ntot, NT)>>
     /\ heap = MakeHeap(gv_ntot, NT)
     /\ clonedFrom = <<0>>
     /\ writes = 0
     /\ osc = o
     /\ W = MakeFields(Wc, real, 1)
     /\ P = Pf
     /\ P_internal_data = data
     /\ P_prev = 0
     /\ log = <<>>
     /\ calls = 0
     /\ Pold = Pf
     /\ bsOld = data
     /\ ret = NoRet

\* one timestep: the solver hands over the fields of this step, scaled by k
UpdateP ==
  /\ calls < MaxCalls
  /\ \E k \in FieldScales :
     \E Wf \in {[pr \in DOMAIN W |-> [i \in Index |-> FieldValue(k, pr[1], pr[2], i)]]} :
     \E r \in {update_P(objs[1], heap, osc, P, Wf, P_internal_data)} :
          /\ W' = Wf
          /\ P' = r.P
          /\ P_internal_data' = r.bs
          /\ P_prev' = r.cur
          /\ log' = r.log
  /\ calls' = calls + 1
  /\ Pold' = P
  /\ bsOld' = P_internal_data
  /\ UNCHANGED <<objs, heap, clonedFrom, writes, osc, ret>>

SpecUpdate == InitUpdate /\ [][UpdateP]_vars

(***************************************************************************)
(* Memory safety of update_P: every index the kernel uses lies inside its  *)
(* array and no null pointer is read.                                      *)
(***************************************************************************)
MemorySafe ==
  \A k \in 1..Len(log) :
     /\ log[k].idx \subseteq Index
     /\ log[k].bsIdx \subseteq DOMAIN P_internal_data
     /\ ~log[k].nullRead

(***************************************************************************)
(* Claims.                                                                 *)
(***************************************************************************)
Addrs(k) == {objs[k].sigma[e] : e \in Entries} \ {NULL}

CloneShape(k, j) ==
  /\ objs[k].id = objs[j].id
  /\ objs[k].next = NULL
  /\ \A e \in Entries :
       /\ objs[k].trivial_sigma[e] = objs[j].trivial_sigma[e]
       /\ (objs[k].sigma[e] = NULL) = (objs[j].sigma[e] = NULL)
       /\ objs[k].sigma[e] # NULL =>
            /\ objs[k].sigma[e] \in DOMAIN heap
            /\ DOMAIN heap[objs[k].sigma[e]] = DOMAIN heap[objs[j].sigma[e]]
            /\ DOMAIN heap[objs[k].sigma[e]] = 0..(objs[j].ntot - 1)
            /\ writes = 0 => heap[objs[k].sigma[e]] = heap[objs[j].sigma[e]]
  /\ Addrs(k) \cap Addrs(j) = {}
  /\ \A e \in Entries, f \in Entries :
       (e # f /\ objs[k].sigma[e] # NULL) => objs[k].sigma[e] # objs[k].sigma[f]

WriteKeepsOther(k, j) ==
  (\E a \in Addrs(j) : heap'[a] # heap[a]) => \A a \in Addrs(k) : heap'[a] = heap[a]

\* C1: a clone has the id of the original, an empty next, the same trivial
\* markers, and for every non-null coupling array of the original an array of
\* its own with the same length and, until someone writes, the same contents;
\* null entries stay null; a write to an array of the original changes no value
\* of the clone, and a write to an array of the clone none of the original.
C1_CloneIndependent ==
  /\ [](\A k \in 1..Len(objs) : clonedFrom[k] # 0 => CloneShape(k, clonedFrom[k]))
  /\ [][\A k \in 1..Len(objs) :
          clonedFrom[k] # 0 =>
            WriteKeepsOther(k, clonedFrom[k]) /\ WriteKeepsOther(clonedFrom[k], k)]_vars

\* a clone with an array, after a write that made the two arrays differ, of an
\* original that is chained to a next susceptibility
C1_Witness ==
  /\ Len(objs) = 2
  /\ clonedFrom[2] = 1
  /\ objs[1].next # NULL
  /\ writes > 0
  /\ \E e \in Entries :
       /\ objs[1].sigma[e] # NULL
       /\ heap[objs[1].sigma[e]] # heap[objs[2].sigma[e]]
  /\ \E e \in Entries : objs[1].sigma[e] = NULL

\* C2: needs_P(c, W) is true exactly when c is electric or magnetic and some
\* direction d has a non-trivial coupling entry (c, d) while the field array of
\* c re-pointed to d is present in W.
C2_NeedsP ==
  ret.op = "needs_P" =>
    ret.val = (/\ ret.c \in {"Ex", "Ey", "Ez", "Hx", "Hy", "Hz"}
               /\ \E d \in DirSet :
                    /\ ~objs[1].trivial_sigma[<<ret.c, d>>]
                    /\ <<direction_component(ret.c, d), 0>> \in DOMAIN W)

\* needs_P answered true for a component whose own-axis entry is trivial
C2_Witness ==
  /\ ret.op = "needs_P"
  /\ ret.val = TRUE
  /\ objs[1].trivial_sigma[<<ret.c, component_direction(ret.c)>>]
  /\ <<ret.c, 0>> \notin DOMAIN W

Diagonal == \A e \in Entries :
              ~objs[1].trivial_sigma[e] => e[2] = component_direction(e[1])

\* C3: needs_W_notowned(c, W) is true exactly when some direction d other than
\* the axis of c gives a component cP (c re-pointed to d) with needs_P(cP, W)
\* and a non-trivial entry (cP, axis of c); with a diagonal tensor it is false.
C3_NeedsWNotowned ==
  ret.op = "needs_W_notowned" =>
    /\ ret.val = (\E d \in DirSet \ {component_direction(ret.c)} :
                     /\ needs_P(objs[1], direction_component(ret.c, d), W)
                     /\ ~objs[1].trivial_sigma[<<direction_component(ret.c, d),
                                                 component_direction(ret.c)>>])
    /\ Diagonal => ret.val = FALSE

\* needs_W_notowned answered true
C3_Witness ==
  /\ ret.op = "needs_W_notowned"
  /\ ret.val = TRUE

\* the points the grid volume owns: the same number for every component
OwnedPoints == Cardinality(Owned("Ex"))

\* C4 as stated: num_internal_data returns (owned points) x (allocated pairs).
C4_OwnedTimesPairs ==
  ret.op = "num_internal_data" =>
    /\ \A c \in CompSet : Cardinality(Owned(c)) = OwnedPoints
    /\ ret.val = OwnedPoints * Cardinality(DOMAIN P)

\* C4 amended: num_internal_data returns gv.ntot() x (allocated pairs), where
\* gv.ntot() counts every point of the grid volume, owned or not, and is more
\* than the number of owned points.
C4_NtotTimesPairs ==
  ret.op = "num_internal_data" =>
    /\ ret.val = gv_ntot * Cardinality(DOMAIN P)
    /\ gv_ntot > OwnedPoints

\* the count of three allocated pairs, two of them the copies of one component
C4_Witness ==
  /\ ret.op = "num_internal_data"
  /\ Cardinality(DOMAIN P) = 3
  /\ \E c \in CompSet : <<c, 0>> \in DOMAIN P /\ <<c, 1>> \in DOMAIN P

AllTrivial == \A e \in Entries : objs[1].trivial_sigma[e] /\ objs[1].sigma[e] = NULL

ZeroP(Pf) == \A pr \in DOMAIN Pf : \A i \in DOMAIN Pf[pr] : Pf[pr][i] = 0

ZeroData(data) == \A j \in DOMAIN data : data[j] = 0

\* C5: with every coupling entry trivial, a step from an all-zero P and backing
\* store ends in an all-zero P and backing store, whatever the fields are.
C5_TrivialStaysZero ==
  [][(AllTrivial /\ ZeroP(P) /\ ZeroData(P_internal_data))
       => (ZeroP(P') /\ ZeroData(P_internal_data'))]_vars

\* two calls on a trivial tensor, with allocated P and non-zero fields present
C5_Witness ==
  /\ calls = 2
  /\ AllTrivial
  /\ ZeroP(P)
  /\ ZeroData(P_internal_data)
  /\ \E pr \in DOMAIN P : pr \in DOMAIN W /\ \E i \in Index : W[pr][i] # 0

\* the log entry of the pair pr
EntryOf(pr) == CHOOSE k \in 1..Len(log) : log[k].c = pr[1] /\ log[k].cmp = pr[2]

\* the cursor after the k-th allocated pair
CursorAfter(k) == IF k = Len(log) THEN P_prev ELSE log[k + 1].off

DiagSigma(c) == objs[1].sigma[<<c, component_direction(c)>>]

\* the pair of log entry k lacks its field array or its diagonal coupling array
Lacking(k) == ~HasArr(W, log[k].c, log[k].cmp) \/ DiagSigma(log[k].c) = NULL

\* the candidate directions of c: the next and the next-next of its axis
OtherDirs(c) == {cycle_direction(gv_dim, component_direction(c), 1),
                 cycle_direction(gv_dim, component_direction(c), 2)}

\* an off-diagonal direction of log entry k with a coupling array and no field
Dropped(k, d) ==
  /\ objs[1].sigma[<<log[k].c, d>>] # NULL
  /\ ~HasArr(W, direction_component(log[k].c, d), log[k].cmp)

\* C6 as stated: a call that met an allocated pair lacking its field or its
\* diagonal coupling array, or an off-diagonal coupling array without its
\* field, does not return normally.
C6_FailsFast ==
  calls > 0 =>
    \A k \in 1..Len(log) :
       ~Lacking(k) /\ \A d \in OtherDirs(log[k].c) : ~Dropped(k, d)

\* C6 amended: update_P asserts nothing and returns normally; a pair lacking
\* its field or its diagonal coupling array is skipped (P and its region of the
\* backing store unchanged, the cursor advanced by gv.ntot()), and an
\* off-diagonal direction whose field array is null is left out of the drive.
C6_SkipsSilently ==
  calls > 0 =>
    /\ Len(log) = Cardinality(DOMAIN P)
    /\ \A k \in 1..Len(log) :
         /\ Lacking(k) =>
              /\ ~log[k].active
              /\ P[<<log[k].c, log[k].cmp>>] = Pold[<<log[k].c, log[k].cmp>>]
              /\ \A i \in Index :
                   P_internal_data[log[k].off + i] = bsOld[log[k].off + i]
              /\ CursorAfter(k) = log[k].off + gv_ntot
         /\ \A d \in OtherDirs(log[k].c) :
              Dropped(k, d) => direction_component(log[k].c, d) \notin log[k].offW

\* a returned call that skipped a pair in mid-run before updating another one
C6_Witness ==
  /\ calls > 0
  /\ \E k \in 1..Len(log) :
       /\ Lacking(k)
       /\ \E i \in Index : P[<<log[k].c, log[k].cmp>>][i] # 0
       /\ \E m \in (k + 1)..Len(log) : log[m].active

\* the allocated pairs in the order num_internal_data counts them
AllocSeq == SelectSeq(PairSeq, LAMBDA pr : pr \in DOMAIN P)

Region(k) == log[k].off..(log[k].off + gv_ntot - 1)

\* C7: the cursor starts at 0 and is advanced once for every allocated pair, in
\* the order of num_internal_data, skipped pairs included, each time by what
\* num_internal_data counts for a pair; the regions are contiguous and
\* disjoint, the kernel touches the backing store only inside the region of
\* the pair at hand, and the final cursor is num_internal_data(P, gv).
C7_Cursor ==
  calls > 0 =>
    /\ Len(log) = Len(AllocSeq)
    /\ \A k \in 1..Len(log) :
         /\ <<log[k].c, log[k].cmp>> = AllocSeq[k]
         /\ log[k].off = (k - 1) * PairCount(P, log[k].c, log[k].cmp)
         /\ CursorAfter(k) = log[k].off + PairCount(P, log[k].c, log[k].cmp)
         /\ log[k].bsIdx \subseteq Region(k)
         /\ \A m \in 1..Len(log) : m # k => Region(m) \cap Region(k) = {}
    /\ \A j \in DOMAIN P_internal_data :
         P_internal_data[j] # bsOld[j] =>
           \E k \in 1..Len(log) : log[k].active /\ j \in log[k].bsIdx
    /\ P_prev = num_internal_data(P)
    /\ P_prev = Cardinality(DOMAIN P_internal_data)

\* a call over three or more pairs that skipped one and updated a later one
C7_Witness ==
  /\ calls > 0
  /\ Len(log) >= 3
  /\ \E k \in 1..Len(log) :
       /\ ~log[k].active
       /\ \E m \in (k + 1)..Len(log) :
            log[m].active /\ P_internal_data[log[m].off + 1] # bsOld[log[m].off + 1]

\* the candidate of c in direction d, as the claim names it: direction,
\* component, stride, field array and coupling array
ClaimCandidate(c, cmp, d) ==
  [d |-> d, c |-> direction_component(c, d),
   is |-> IF c \in {"Hx", "Hy", "Hz"} THEN -gv_stride(d) ELSE gv_stride(d),
   w |-> direction_component(c, d),
   s |-> objs[1].sigma[<<c, d>>]]

\* the candidate directions of (c, cmp) whose field and coupling are present
Complete(c, cmp) ==
  {d \in OtherDirs(c) :
     HasArr(W, direction_component(c, d), cmp) /\ objs[1].sigma[<<c, d>>] # NULL}

\* the stable average of the off-diagonal term of direction d at point i
ClaimOffdiag(c, cmp, d, i) ==
  LET u == heap[objs[1].sigma[<<c, d>>]]
      g == W[<<direction_component(c, d), cmp>>]
      sx == ClaimCandidate(c, cmp, d).is
      so == ClaimCandidate(c, cmp, component_direction(c)).is
  IN ((g[i] + g[i - sx]) * u[i] + (g[i + so] + g[(i + so) - sx]) * u[i + so]) \div 4

RECURSIVE SumOver(_, _, _, _)
SumOver(D, c, cmp, i) ==
  IF D = {} THEN 0
  ELSE LET d == CHOOSE x \in D : TRUE
       IN ClaimOffdiag(c, cmp, d, i) + SumOver(D \ {d}, c, cmp, i)

\* the drive: the diagonal term and the averages of the complete candidates
ClaimDrive(c, cmp, i) ==
  heap[DiagSigma(c)][i] * W[<<c, cmp>>][i] + SumOver(Complete(c, cmp), c, cmp, i)

\* C8: for every allocated pair with its field and its diagonal coupling, one
\* call puts the old P[i] into the backing store and
\* b_inv * (p_cur * (2 - a_denom) - b * p_prev + a * drive) into P[i] at every
\* owned point i, with a_denom = 0 under no_omega_0_denominator and a
\* otherwise, and leaves the other points alone.
C8_Recurrence ==
  calls > 0 =>
    \A pr \in DOMAIN P :
       (HasArr(W, pr[1], pr[2]) /\ DiagSigma(pr[1]) # NULL) =>
         LET off == log[EntryOf(pr)].off
             a == osc.omega2pi_dt * osc.omega2pi_dt
             a_denom == IF osc.no_omega_0_denominator THEN 0 ELSE a
             b == 1 - osc.g2pi_dt_half
             b_inv == 1 \div (1 + osc.g2pi_dt_half)
         IN \A i \in Index :
              IF i \in Owned(pr[1])
                THEN /\ P_internal_data[off + i] = Pold[pr][i]
                     /\ P[pr][i] = b_inv * (Pold[pr][i] * (2 - a_denom)
                                            - b * bsOld[off + i]
                                            + a * ClaimDrive(pr[1], pr[2], i))
                ELSE /\ P_internal_data[off + i] = bsOld[off + i]
                     /\ P[pr][i] = Pold[pr][i]

\* a second call, under no_omega_0_denominator, on a pair with an off-diagonal
\* term, whose previous-step values were not zero
C8_Witness ==
  /\ calls = 2
  /\ osc.no_omega_0_denominator
  /\ \E pr \in DOMAIN P :
       /\ HasArr(W, pr[1], pr[2])
       /\ DiagSigma(pr[1]) # NULL
       /\ Complete(pr[1], pr[2]) # {}
       /\ \E i \in Owned(pr[1]) :
            bsOld[log[EntryOf(pr)].off + i] # 0 /\ Pold[pr][i] # 0

BranchOf(n) == IF n = 0 THEN "iso" ELSE IF n = 1 THEN "2x2" ELSE "3x3"

\* C9 as stated: the branch is chosen by how many of the two candidate
\* directions have a non-trivial coupling entry.
C9_BranchByCoupling ==
  calls > 0 =>
    \A k \in 1..Len(log) :
       log[k].active =>
         log[k].branch =
           BranchOf(Cardinality({d \in OtherDirs(log[k].c) :
                                   ~objs[1].trivial_sigma[<<log[k].c, d>>]}))

\* C9 amended: the branch is chosen once per pair by how many of the two
\* candidate directions have both a non-null field array and a non-trivial
\* coupling entry: none the isotropic, one the 2-term, two the 3-term branch;
\* with exactly one, the 2-term branch uses the direction, component, stride,
\* field array and coupling array of that candidate.
C9_BranchByCompleteCandidates ==
  calls > 0 =>
    \A k \in 1..Len(log) :
       log[k].active =>
         LET D == Complete(log[k].c, log[k].cmp)
         IN /\ log[k].branch = BranchOf(Cardinality(D))
            /\ \A d \in D :
                 Cardinality(D) = 1 => log[k].k1 = ClaimCandidate(log[k].c, log[k].cmp, d)
            /\ Cardinality(D) = 2 =>
                 {log[k].k1, log[k].k2} =
                   {ClaimCandidate(log[k].c, log[k].cmp, d) : d \in D}

\* a 2-term update whose only complete candidate is the next-next direction
C9_Witness ==
  /\ calls > 0
  /\ \E k \in 1..Len(log) :
       /\ log[k].active
       /\ log[k].branch = "2x2"
       /\ log[k].k1.d = cycle_direction(gv_dim, component_direction(log[k].c), 2)
       /\ P[<<log[k].c, log[k].cmp>>] # Pold[<<log[k].c, log[k].cmp>>]

\* C10: a P[c] that a call changed has needs_P(c, W), and a component whose
\* field array a call read through an off-diagonal average has
\* needs_W_notowned, for the same susceptibility and fields.
C10_PolicyCovers ==
  calls > 0 =>
    /\ \A pr \in DOMAIN P : P[pr] # Pold[pr] => needs_P(objs[1], pr[1], W)
    /\ \A k \in 1..Len(log) :
         \A c1 \in log[k].offW : needs_W_notowned(objs[1], c1, W)

\* a call that changed the second copy of a magnetic P through two
\* off-diagonal averages
C10_Witness ==
  /\ calls > 0
  /\ \E k \in 1..Len(log) :
       /\ log[k].c \in {"Hx", "Hy", "Hz"}
       /\ log[k].cmp = 1
       /\ Cardinality(log[k].offW) = 2
       /\ P[<<log[k].c, 1>>] # Pold[<<log[k].c, 1>>]

====
